---- MODULE Spec2Model ----
(***************************************************************************)
(* The AUSF operator charm (src/charm.py): one handler,                    *)
(* _on_ausf_pebble_ready, observed on three framework events, reading the  *)
(* "nrf" relation, the workload container and the unit address, and        *)
(* writing the unit status, the config file and the pebble plan.           *)
(***************************************************************************)
EXTENDS Naturals, Sequences, FiniteSets, Bags, TLC

VARIABLES
    relations,    \* the unit's relations: relation name -> the remote app's data (key -> value)
    can_connect,  \* whether the workload container answers
    unit_get,     \* what `unit-get private-address` does: [returncode, output]
    files,        \* the container's file system: path -> content
    layers,       \* the container's pebble layers: label -> layer
    running,      \* the services pebble runs: name -> the service it was started with
    status,       \* self.unit.status
    deferred,     \* deferred events awaiting redelivery: a bag of event names
    last          \* what the latest dispatch did (NoPass after an environment step)

vars == <<relations, can_connect, unit_get, files, layers, running, status, deferred, last>>

-----------------------------------------------------------------------------
(* Bounds of the model *)
MaxUrls == 2        \* distinct non-empty URLs the NRF may publish
MaxAddrs == 2       \* distinct unit addresses
MaxDeferred == 2    \* deferred events kept at once

-----------------------------------------------------------------------------
(* Values *)
None == "None"                     \* Python's None where a string may stand
Truthy(v) == v # None /\ v # ""    \* Python truthiness of an Optional[str]
NoData == << >>                    \* an empty mapping / an absent Optional object
Some(x) == <<x>>

NrfUrls == {"http://nrf-" \o ToString(i) : i \in 1..MaxUrls}
UrlValues == {""} \cup NrfUrls
Addresses == {"10.1.0." \o ToString(i) : i \in 1..MaxAddrs}
Whitespace == {" ", "\n", "\t"}
UnitGetValues ==
    {[returncode |-> 1, output |-> << >>]}
        \cup {[returncode |-> 0, output |-> <<a, "\n">>] : a \in Addresses}

BASE_CONFIG_PATH == "/etc/ausf"
CONFIG_FILE_NAME == "ausfcfg.conf"

app_name == "ausf-operator"
model_name == "whatever"

BlockedStatus(message) == [name |-> "blocked", message |-> message]
WaitingStatus(message) == [name |-> "waiting", message |-> message]
ActiveStatus == [name |-> "active", message |-> ""]
UnknownStatus == [name |-> "unknown", message |-> ""]

-----------------------------------------------------------------------------
(* The framework and container operations the charm calls.  `self` is the  *)
(* charm object during one dispatch: the ambient state it reads, the       *)
(* container and status it writes, `log` the calls made so far and         *)
(* `event_deferred` whether event.defer() was called.                      *)

\* The element of a one-element set: Only({e(x) : x \in {v}}) is e(v), with v
\* evaluated once, as a statement's result is before the next statement runs.
Only(S) == CHOOSE x \in S : TRUE

get_relation(self, relation_name) ==
    IF relation_name \in DOMAIN self.relations
    THEN Some(self.relations[relation_name]) ELSE NoData

get_nrf_url(self) ==
    LET rel == get_relation(self, "nrf")
    IN  IF rel # NoData /\ "url" \in DOMAIN rel[1] THEN rel[1].url ELSE None

\* Faulty variant: a status of the same kind as the current one is taken as set already.
set_status_if_changed(self, value) ==
    [self EXCEPT !.status = IF @.name = value.name THEN @ ELSE value,
                 !.log = Append(@, "status")]

set_status(self, value) ==
    [self EXCEPT !.status = value, !.log = Append(@, "status")]

\* Faulty variant: the event is not deferred.
defer_forgotten(self) == self

defer(self) ==
    [self EXCEPT !.event_deferred = TRUE, !.log = Append(@, "defer")]

exists(self, path) == path \in DOMAIN self.files

push(self, path, source) ==
    Only({[c EXCEPT !.files = [p \in DOMAIN c.files \cup {path} |->
                                 IF p = path THEN source ELSE c.files[p]],
                    !.log = Append(@, "push")] : c \in {self}})

\* Faulty variant: a label that exists keeps the layer it has.
add_layer_keeps_existing(self, label, layer, combine) ==
    Only({[c EXCEPT
            !.layers = [l \in DOMAIN c.layers \cup {label} |->
                           IF l \in DOMAIN c.layers THEN c.layers[l] ELSE layer],
            !.log = Append(@, "add_layer")] : c \in {self}})

\* Container.add_layer: a new label is added; an existing one is combined,
\* where a service with override "replace" replaces the one of that name.
add_layer(self, label, layer, combine) ==
    Only({LET old == c.layers[label]
              combined ==
                [layer EXCEPT !.services =
                    [s \in DOMAIN old.services \cup DOMAIN layer.services |->
                        IF s \in DOMAIN layer.services /\ layer.services[s].override = "replace"
                        THEN layer.services[s] ELSE old.services[s]]]
          IN  [c EXCEPT
                !.layers = [l \in DOMAIN c.layers \cup {label} |->
                               IF l # label THEN c.layers[l]
                               ELSE IF label \in DOMAIN c.layers /\ combine
                                    THEN combined ELSE layer],
                !.log = Append(@, "add_layer")] : c \in {self}})

\* The plan pebble computes from its layers (one label here: its services).
get_plan(ls) ==
    [services |-> IF "ausf" \in DOMAIN ls THEN ls["ausf"].services ELSE NoData]

\* Container.replan: (re)start the enabled services as the plan has them.
replan(self) ==
    Only({LET plan == get_plan(c.layers).services
              enabled == {s \in DOMAIN plan : plan[s].startup = "enabled"}
          IN  [c EXCEPT !.running = [s \in enabled |-> plan[s]],
                        !.log = Append(@, "replan")] : c \in {self}})

\* An uncaught exception: the handler stops here.
raise(self) == [self EXCEPT !.log = Append(@, "raise")]

\* subprocess.check_output: the output, or CalledProcessError (no value).
check_output(self, argv) ==
    IF argv = <<"unit-get", "private-address">> /\ self.unit_get.returncode = 0
    THEN Some(self.unit_get.output) ELSE NoData

\* str.strip on the output's tokens.
strip(out) ==
    LET keep == {i \in 1..Len(out) : out[i] \notin Whitespace}
        lo == CHOOSE i \in keep : \A j \in keep : i <= j
        hi == CHOOSE i \in keep : \A j \in keep : j <= i
    IN  IF keep = {} THEN << >> ELSE SubSeq(out, lo, hi)

\* ipaddress.IPv4Address: one address token, or ValueError (no value).
IPv4Address(text) == IF Len(text) = 1 THEN Some(text[1]) ELSE NoData

\* templates/ausfcfg.conf.j2 rendered with nrf_url and ausf_url.
render(nrf_url, ausf_url) ==
    [configuration |->
        [groupId |-> "ausfGroup001",
         nrfUri |-> nrf_url,
         plmnSupportList |-> <<[mcc |-> "208", mnc |-> "93"]>>,
         sbi |-> [bindingIPv4 |-> "0.0.0.0", port |-> 29509,
                  registerIPv4 |-> ausf_url, scheme |-> "http"],
         serviceNameList |-> <<"nausf-auth">>],
     info |-> [description |-> "AUSF initial local configuration", version |-> "1.0.0"]]

-----------------------------------------------------------------------------
(* AUSFOperatorCharm *)

\* Faulty variant: relation-joined is not observed.
observers_without_joined == {"ausf_pebble_ready", "nrf_available"}

\* __init__: the events _on_ausf_pebble_ready is observed on.
observers == {"ausf_pebble_ready", "nrf_available", "nrf_relation_joined"}

_ausf_hostname == app_name \o "." \o model_name \o ".svc.cluster.local"

\* Faulty variant: the template's two values are swapped.
_write_config_file_swapped(self, nrf_url) ==
    LET content == render(_ausf_hostname, nrf_url)
    IN  push(self, BASE_CONFIG_PATH \o "/" \o CONFIG_FILE_NAME, content)

_write_config_file(self, nrf_url) ==
    LET content == render(nrf_url, _ausf_hostname)
    IN  push(self, BASE_CONFIG_PATH \o "/" \o CONFIG_FILE_NAME, content)

\* Faulty variant: only an absent url counts as unavailable, an empty one does not.
_nrf_data_is_not_none(self) == get_nrf_url(self) # None

_nrf_data_is_available(self) ==
    IF ~Truthy(get_nrf_url(self)) THEN FALSE ELSE TRUE

\* Faulty variant: the file is looked for under its name, without the base directory.
_config_file_is_written_relative(self) ==
    IF ~exists(self, CONFIG_FILE_NAME) THEN FALSE ELSE TRUE

\* Faulty variant: a file rendered from another URL counts as not written.
_config_file_is_current(self) ==
    /\ exists(self, BASE_CONFIG_PATH \o "/" \o CONFIG_FILE_NAME)
    /\ self.files[BASE_CONFIG_PATH \o "/" \o CONFIG_FILE_NAME].configuration.nrfUri
           = get_nrf_url(self)

\* Faulty variant: the file is taken as written without looking.
_config_file_is_written_always(self) == TRUE

_config_file_is_written(self) ==
    IF ~exists(self, BASE_CONFIG_PATH \o "/" \o CONFIG_FILE_NAME) THEN FALSE ELSE TRUE

\* Faulty variant: the relation is taken as created whatever the model says.
_relation_created_always(self, relation_name) == TRUE

_relation_created(self, relation_name) ==
    IF get_relation(self, relation_name) = NoData THEN FALSE ELSE TRUE

_nrf_relation_is_created(self) == _relation_created(self, "nrf")

\* Faulty variant: the output is not stripped of its trailing newline.
_pod_ip_unstripped(self) ==
    LET out == check_output(self, <<"unit-get", "private-address">>)
    IN  IF out = NoData THEN NoData ELSE IPv4Address(out[1])

\* Faulty variant: a failed query is swallowed and yields None.
_pod_ip_or_none(self) ==
    LET out == check_output(self, <<"unit-get", "private-address">>)
    IN  IF out = NoData THEN Some(None) ELSE IPv4Address(strip(out[1]))

\* The unit address, or no value when check_output or IPv4Address raises.
_pod_ip(self) ==
    LET out == check_output(self, <<"unit-get", "private-address">>)
    IN  IF out = NoData THEN NoData ELSE IPv4Address(strip(out[1]))

\* The environment mapping, or no value when _pod_ip raises.
_environment_variables(self) ==
    LET ip == _pod_ip(self)
    IN  IF ip = NoData THEN NoData
        ELSE Some([GRPC_GO_LOG_VERBOSITY_LEVEL |-> "99",
                   GRPC_GO_LOG_SEVERITY_LEVEL |-> "info",
                   GRPC_TRACE |-> "all",
                   GRPC_VERBOSITY |-> "debug",
                   POD_IP |-> ip[1],
                   MANAGED_BY_CONFIG_POD |-> "true"])

\* Faulty variant: the command names the config file without its directory.
_pebble_layer_relative(self) ==
    LET env == _environment_variables(self)
    IN  IF env = NoData THEN NoData
        ELSE Some([summary |-> "ausf layer",
                   description |-> "pebble config layer for ausf",
                   services |->
                       [ausf |->
                           [override |-> "replace",
                            startup |-> "enabled",
                            command |-> "/free5gc/ausf/ausf --ausfcfg " \o CONFIG_FILE_NAME,
                            environment |-> env[1]]]])

\* The layer, or no value when _environment_variables raises.
_pebble_layer(self) ==
    LET env == _environment_variables(self)
    IN  IF env = NoData THEN NoData
        ELSE Some([summary |-> "ausf layer",
                   description |-> "pebble config layer for ausf",
                   services |->
                       [ausf |->
                           [override |-> "replace",
                            startup |-> "enabled",
                            command |-> "/free5gc/ausf/ausf --ausfcfg "
                                            \o BASE_CONFIG_PATH \o "/" \o CONFIG_FILE_NAME,
                            environment |-> env[1]]]])

\* Faulty variant: connectivity is checked before the relation.
_on_ausf_pebble_ready_connect_first(self) ==
    IF ~self.can_connect
    THEN defer(set_status(self, WaitingStatus("Waiting for container to be ready")))
    ELSE IF ~_nrf_relation_is_created(self)
    THEN set_status(self, BlockedStatus("Waiting for NRF relation to be created"))
    ELSE IF ~_nrf_data_is_available(self)
    THEN set_status(self, WaitingStatus("Waiting for NRF data to be available"))
    ELSE Only({Only({IF layer = NoData THEN raise(written)
                     ELSE set_status(replan(add_layer(written, "ausf", layer[1], TRUE)),
                                     ActiveStatus) :
                     layer \in {_pebble_layer(written)}}) :
               written \in {IF ~_config_file_is_written(self)
                            THEN _write_config_file(self, get_nrf_url(self))
                            ELSE self}})

\* Faulty variant: the event is deferred while the NRF data is awaited, too.
_on_ausf_pebble_ready_defer_on_data(self) ==
    IF ~_nrf_relation_is_created(self)
    THEN set_status(self, BlockedStatus("Waiting for NRF relation to be created"))
    ELSE IF ~self.can_connect
    THEN defer(set_status(self, WaitingStatus("Waiting for container to be ready")))
    ELSE IF ~_nrf_data_is_available(self)
    THEN defer(set_status(self, WaitingStatus("Waiting for NRF data to be available")))
    ELSE Only({Only({IF layer = NoData THEN raise(written)
                     ELSE set_status(replan(add_layer(written, "ausf", layer[1], TRUE)),
                                     ActiveStatus) :
                     layer \in {_pebble_layer(written)}}) :
               written \in {IF ~_config_file_is_written(self)
                            THEN _write_config_file(self, get_nrf_url(self))
                            ELSE self}})

\* Faulty variant: the layer is added and replanned before the file is written.
_on_ausf_pebble_ready_layer_first(self) ==
    IF ~_nrf_relation_is_created(self)
    THEN set_status(self, BlockedStatus("Waiting for NRF relation to be created"))
    ELSE IF ~self.can_connect
    THEN defer(set_status(self, WaitingStatus("Waiting for container to be ready")))
    ELSE IF ~_nrf_data_is_available(self)
    THEN set_status(self, WaitingStatus("Waiting for NRF data to be available"))
    ELSE Only({Only({set_status(IF ~_config_file_is_written(planned)
                                THEN _write_config_file(planned, get_nrf_url(planned))
                                ELSE planned,
                                ActiveStatus) :
                     planned \in {IF layer = NoData THEN raise(self)
                                  ELSE replan(add_layer(self, "ausf", layer[1], TRUE))}}) :
               layer \in {_pebble_layer(self)}})

\* Faulty variant: the layer is built, and the address resolved, before the
\* file is written.
_on_ausf_pebble_ready_address_first(self) ==
    IF ~_nrf_relation_is_created(self)
    THEN set_status(self, BlockedStatus("Waiting for NRF relation to be created"))
    ELSE IF ~self.can_connect
    THEN defer(set_status(self, WaitingStatus("Waiting for container to be ready")))
    ELSE IF ~_nrf_data_is_available(self)
    THEN set_status(self, WaitingStatus("Waiting for NRF data to be available"))
    ELSE Only({Only({IF layer = NoData THEN raise(self)
                     ELSE set_status(replan(add_layer(written, "ausf", layer[1], TRUE)),
                                     ActiveStatus) :
                     written \in {IF ~_config_file_is_written(self)
                                  THEN _write_config_file(self, get_nrf_url(self))
                                  ELSE self}}) :
               layer \in {_pebble_layer(self)}})

_on_ausf_pebble_ready(self) ==
    IF ~_nrf_relation_is_created(self)
    THEN set_status(self, BlockedStatus("Waiting for NRF relation to be created"))
    ELSE IF ~self.can_connect
    THEN defer(set_status(self, WaitingStatus("Waiting for container to be ready")))
    ELSE IF ~_nrf_data_is_available(self)
    THEN set_status(self, WaitingStatus("Waiting for NRF data to be available"))
    ELSE Only({Only({IF layer = NoData THEN raise(written)
                     ELSE set_status(replan(add_layer(written, "ausf", layer[1], TRUE)),
                                     ActiveStatus) :
                     layer \in {_pebble_layer(written)}}) :
               written \in {IF ~_config_file_is_written(self)
                            THEN _write_config_file(self, get_nrf_url(self))
                            ELSE self}})

-----------------------------------------------------------------------------
(* Dispatch *)

\* The charm object at the start of a dispatch, with the relations as given.
Charm(rels) ==
    [relations |-> rels, can_connect |-> can_connect, unit_get |-> unit_get,
     files |-> files, layers |-> layers, running |-> running, status |-> status,
     log |-> << >>, event_deferred |-> FALSE]

\* Faulty variant: the handler runs on every event of the unit.
emit_every_event(self, event) == _on_ausf_pebble_ready(self)

\* framework.emit: the handler runs if it observes the event.
emit(self, event) ==
    IF event \in observers THEN _on_ausf_pebble_ready(self) ELSE self

NoPass == [event |-> "none", handled |-> FALSE]

\* One event handled to completion; `redelivery` when it comes off the
\* deferred queue.  A deferred event is kept for redelivery.
Dispatch(event, rels, redelivery) ==
    \E before \in {Charm(rels)} :
    \E after \in {emit(before, event)} :
    \E kept \in {IF redelivery THEN deferred (-) SetToBag({event}) ELSE deferred} :
        /\ redelivery \/ event \notin observers \/ BagCardinality(deferred) < MaxDeferred
        /\ files' = after.files
        /\ layers' = after.layers
        /\ running' = after.running
        /\ status' = after.status
        /\ deferred' = IF after.event_deferred THEN kept (+) SetToBag({event}) ELSE kept
        /\ last' = [event |-> event, handled |-> event \in observers,
                    redelivery |-> redelivery,
                    before |-> before, log |-> after.log, kept |-> kept,
                    event_deferred |-> after.event_deferred]

Init ==
    /\ relations = NoData
    /\ can_connect = FALSE
    /\ unit_get \in UnitGetValues
    /\ files = NoData
    /\ layers = NoData
    /\ running = NoData
    /\ status = UnknownStatus
    /\ deferred = EmptyBag
    /\ last = NoPass

\* The "nrf" relation is created: relation-created is not observed.
CreateRelation ==
    /\ "nrf" \notin DOMAIN relations
    /\ relations' = [n \in {"nrf"} |-> NoData]
    /\ Dispatch("nrf_relation_created", relations', FALSE)
    /\ UNCHANGED <<can_connect, unit_get>>

\* A remote unit joins the relation: relation-joined.
JoinUnit ==
    /\ "nrf" \in DOMAIN relations
    /\ Dispatch("nrf_relation_joined", relations, FALSE)
    /\ UNCHANGED <<relations, can_connect, unit_get>>

\* The remote app sets its "url": relation-changed, on which NRFRequires
\* emits nrf_available when a url is there.
PublishUrl(u) ==
    /\ "nrf" \in DOMAIN relations
    /\ relations' = [n \in {"nrf"} |-> [url |-> u]]
    /\ Dispatch(IF Truthy(u) THEN "nrf_available" ELSE "nrf_relation_changed",
                relations', FALSE)
    /\ UNCHANGED <<can_connect, unit_get>>

\* The relation is removed: relation-broken is not observed.
RemoveRelation ==
    /\ "nrf" \in DOMAIN relations
    /\ relations' = NoData
    /\ Dispatch("nrf_relation_broken", relations', FALSE)
    /\ UNCHANGED <<can_connect, unit_get>>

\* Pebble reports the workload container ready.
PebbleReady ==
    /\ Dispatch("ausf_pebble_ready", relations, FALSE)
    /\ UNCHANGED <<relations, can_connect, unit_get>>

\* The framework re-emits a deferred event.
Redeliver(event) ==
    /\ BagIn(event, deferred)
    /\ Dispatch(event, relations, TRUE)
    /\ UNCHANGED <<relations, can_connect, unit_get>>

\* The environment changes with no event for the charm.
ContainerChange ==
    /\ can_connect' = ~can_connect
    /\ last' = NoPass
    /\ UNCHANGED <<relations, unit_get, files, layers, running, status, deferred>>

AddressChange(v) ==
    /\ unit_get # v
    /\ unit_get' = v
    /\ last' = NoPass
    /\ UNCHANGED <<relations, can_connect, files, layers, running, status, deferred>>

\* Something other than the charm deletes the config file.
DeleteConfigFile ==
    /\ exists(Charm(relations), BASE_CONFIG_PATH \o "/" \o CONFIG_FILE_NAME)
    /\ files' = NoData
    /\ last' = NoPass
    /\ UNCHANGED <<relations, can_connect, unit_get, layers, running, status, deferred>>

Next ==
    \/ CreateRelation
    \/ JoinUnit
    \/ \E u \in UrlValues : PublishUrl(u)
    \/ RemoveRelation
    \/ PebbleReady
    \/ \E e \in BagToSet(deferred) : Redeliver(e)
    \/ ContainerChange
    \/ \E v \in UnitGetValues : AddressChange(v)
    \/ DeleteConfigFile

Spec == Init /\ [][Next]_vars

\* The framework re-emits the deferred events it holds: a deferred event is
\* not left waiting forever.
FairSpec == Spec /\ WF_vars(\E e \in observers : Redeliver(e))

-----------------------------------------------------------------------------
(* What the properties below speak of: the latest pass, i.e. the latest    *)
(* dispatch that ran the handler, and the ambient state it started in.     *)

ConfigPath == "/etc/ausf/ausfcfg.conf"
RelationMissing == [name |-> "blocked", message |-> "Waiting for NRF relation to be created"]
ContainerNotReady == [name |-> "waiting", message |-> "Waiting for container to be ready"]
NrfDataMissing == [name |-> "waiting", message |-> "Waiting for NRF data to be available"]
Active == [name |-> "active", message |-> ""]

Pass == last.handled
RelationExisted == "nrf" \in DOMAIN last.before.relations
Reachable == last.before.can_connect
PassUrl ==
    IF RelationExisted /\ "url" \in DOMAIN last.before.relations["nrf"]
    THEN last.before.relations["nrf"].url ELSE None
UrlResolved == PassUrl # None /\ PassUrl # ""
ArtifactExisted == ConfigPath \in DOMAIN last.before.files
AddressResolved == last.before.unit_get.returncode = 0
PassAddress == last.before.unit_get.output[1]
Calls(name) == Cardinality({i \in 1..Len(last.log) : last.log[i] = name})
Aborted == Calls("raise") > 0
ContainerUntouched ==
    /\ files = last.before.files
    /\ layers = last.before.layers
    /\ running = last.before.running
    /\ Calls("push") = 0 /\ Calls("add_layer") = 0 /\ Calls("replan") = 0

\* C1: a pass run while the "nrf" relation does not exist ends with status
\* Blocked("Waiting for NRF relation to be created"), whatever the container
\* reachability, the URL availability and the presence of the config file.
C1_BlockedWithoutRelation ==
    (Pass /\ ~RelationExisted) => status = RelationMissing

C1_Witness ==
    /\ Pass /\ ~RelationExisted /\ Reachable /\ ArtifactExisted
    /\ last.before.status = Active
    /\ status = RelationMissing

\* C2: a pass run while the relation exists and the container cannot be
\* connected to ends with status Waiting("Waiting for container to be ready"),
\* defers its event exactly once (one more event awaits redelivery), and pushes
\* nothing, adds no layer and does not replan.
C2_WaitingAndDeferredOnce ==
    (Pass /\ RelationExisted /\ ~Reachable) =>
        /\ status = ContainerNotReady
        /\ Calls("defer") = 1
        /\ last.event_deferred
        /\ deferred = last.kept (+) SetToBag({last.event})
        /\ ContainerUntouched

C2_Witness ==
    /\ Pass /\ RelationExisted /\ ~Reachable /\ UrlResolved
    /\ last.event = "nrf_available"
    /\ CopiesIn("nrf_available", deferred) = 1
    /\ status = ContainerNotReady

\* C3 as stated: a pass run while the container is reachable and no URL is
\* resolvable ends with status Waiting("Waiting for NRF data to be available")
\* and writes no config file.
C3_Original ==
    (Pass /\ Reachable /\ ~UrlResolved) =>
        /\ status = NrfDataMissing
        /\ Calls("push") = 0 /\ files = last.before.files

\* C3 amended: a pass run while the relation exists, the container is reachable
\* and no URL is resolvable (absent or empty) ends with status
\* Waiting("Waiting for NRF data to be available"), without deferring, and
\* writes no config file.
C3_WaitingForNrfData ==
    (Pass /\ RelationExisted /\ Reachable /\ ~UrlResolved) =>
        /\ status = NrfDataMissing
        /\ Calls("defer") = 0
        /\ ContainerUntouched

C3_Witness ==
    /\ Pass /\ RelationExisted /\ Reachable /\ PassUrl = "" /\ ~ArtifactExisted
    /\ status = NrfDataMissing

\* C4 as stated: with the config file present, a pass with the relation
\* present, the container reachable and the URL resolved renders and pushes
\* nothing, submits the layer, replans and ends Active.
C4_Original ==
    (Pass /\ RelationExisted /\ Reachable /\ UrlResolved /\ ArtifactExisted) =>
        /\ Calls("push") = 0 /\ files = last.before.files
        /\ last.log = <<"add_layer", "replan", "status">>
        /\ status = Active

\* C4 amended: the same, for a pass in which the unit address resolves.
C4_NoPushWhenWritten ==
    (Pass /\ RelationExisted /\ Reachable /\ UrlResolved /\ ArtifactExisted
          /\ AddressResolved) =>
        /\ Calls("push") = 0 /\ files = last.before.files
        /\ last.log = <<"add_layer", "replan", "status">>
        /\ "ausf" \in DOMAIN get_plan(layers).services
        /\ running = get_plan(layers).services
        /\ status = Active

C4_Witness ==
    /\ Pass /\ RelationExisted /\ Reachable /\ UrlResolved /\ ArtifactExisted
    /\ AddressResolved
    /\ last.before.layers = NoData
    /\ last.log = <<"add_layer", "replan", "status">>
    /\ status = Active

C6_PlanAfterActive ==
    (Pass /\ ~Aborted /\ status = Active) =>
        /\ get_plan(layers) =
              [services |->
                  [ausf |->
                      [override |-> "replace",
                       startup |-> "enabled",
                       command |-> "/free5gc/ausf/ausf --ausfcfg /etc/ausf/ausfcfg.conf",
                       environment |->
                           [GRPC_GO_LOG_VERBOSITY_LEVEL |-> "99",
                            GRPC_GO_LOG_SEVERITY_LEVEL |-> "info",
                            GRPC_TRACE |-> "all",
                            GRPC_VERBOSITY |-> "debug",
                            POD_IP |-> PassAddress,
                            MANAGED_BY_CONFIG_POD |-> "true"]]]]
        /\ \E path \in DOMAIN files :
              get_plan(layers).services["ausf"].command
                  = "/free5gc/ausf/ausf --ausfcfg " \o path

C6_Witness ==
    /\ Pass /\ ~Aborted /\ status = Active
    /\ "ausf" \in DOMAIN last.before.layers
    /\ last.before.layers["ausf"].services["ausf"].environment.POD_IP # PassAddress
    /\ get_plan(layers).services["ausf"].environment.POD_IP = PassAddress

\* C7 as stated: the creation of the "nrf" relation, by itself, runs a pass
\* that moves a unit Blocked on the missing relation off Blocked.
C7_Original ==
    (last.event = "nrf_relation_created" /\ last.before.status = RelationMissing) =>
        Pass /\ status # RelationMissing

\* C7 amended: the handler runs on ausf_pebble_ready, nrf_available and
\* nrf_relation_joined, with the same outcome whichever of them started the
\* pass; the creation of the relation runs no pass and leaves the status as it
\* was; a remote unit joining the relation runs a pass which, the relation
\* still existing and unless it aborts on the address resolution, moves the
\* status off Blocked.
C7_Triggers ==
    /\ last.event \in {"ausf_pebble_ready", "nrf_available", "nrf_relation_joined"} =>
          /\ Pass /\ Calls("status") + Calls("raise") = 1
          /\ \A e \in {"ausf_pebble_ready", "nrf_available", "nrf_relation_joined"} :
                LET other == emit(last.before, e)
                IN  other.status = status /\ other.log = last.log
                       /\ other.files = files /\ other.layers = layers
    /\ last.event = "nrf_relation_created" =>
          ~Pass /\ last.log = << >> /\ status = last.before.status
    /\ (last.event = "nrf_relation_joined" /\ RelationExisted /\ ~Aborted) =>
          status.name # "blocked"

C7_Witness ==
    /\ last.event = "nrf_relation_joined" /\ Pass
    /\ last.before.status = RelationMissing
    /\ status # RelationMissing

StatusValues == {UnknownStatus, RelationMissing, ContainerNotReady, NrfDataMissing, Active}

\* The passes that could have started in the ambient state of the latest one
\* (relation, reachability, URL as they were), with any previous status, any
\* outcome of the address query and the config file present or not.
SameAmbient ==
    {[last.before EXCEPT !.status = s, !.unit_get = g, !.files = f] :
        s \in StatusValues, g \in UnitGetValues, f \in {NoData, last.before.files}}

\* C8 as stated: two passes started in the same ambient state (relation,
\* reachability, URL availability) end with the same status, whatever the
\* previous status and the event, and every pass sets the status.
C8_Original ==
    Pass =>
        /\ Calls("status") = 1
        /\ \A other \in SameAmbient : \A e \in observers :
              emit(other, e).status = status

\* C8 amended: two passes started in the same ambient state that both run to
\* completion end with the same status, whatever the previous status and the
\* event, and each sets the status exactly once; a pass that aborts on the
\* address resolution sets no status.
C8_PureStatus ==
    Pass =>
        /\ Calls("status") = (IF Aborted THEN 0 ELSE 1)
        /\ Aborted => status = last.before.status
        /\ ~Aborted =>
              \A other \in SameAmbient : \A e \in observers :
                  LET ran == emit(other, e)
                  IN  (ran.log # << >> /\ ran.log[Len(ran.log)] # "raise")
                          => ran.status = status

C8_Witness ==
    /\ Pass /\ ~Aborted
    /\ last.before.status = Active
    /\ status = NrfDataMissing
    /\ last.event = "nrf_relation_joined"

\* C9: once the config file is written, no step but its deletion from outside
\* changes it: no later pass pushes it again, whatever the events and the URL
\* changes, so its nrfUri stays the URL of the first write.
C9_WrittenOnce ==
    [][DeleteConfigFile \/ (ConfigPath \in DOMAIN files =>
            /\ files' = files
            /\ (last'.handled => Cardinality({i \in 1..Len(last'.log) :
                                                last'.log[i] = "push"}) = 0))]_vars

\* A pass ended Active with the file's nrfUri differing from the current URL.
C9_Witness ==
    /\ Pass /\ ~Aborted /\ status = Active /\ ArtifactExisted
    /\ UrlResolved
    /\ files[ConfigPath].configuration.nrfUri # PassUrl
    /\ files = last.before.files

\* C10: when the address query fails in a pass that got through the relation,
\* connectivity and URL checks, the pass aborts: no layer is added, replan is
\* not called, and the status keeps its previous value.
C10_AbortOnAddressError ==
    (Pass /\ RelationExisted /\ Reachable /\ UrlResolved /\ ~AddressResolved) =>
        /\ Aborted /\ last.log[Len(last.log)] = "raise"
        /\ Calls("add_layer") = 0 /\ Calls("replan") = 0 /\ Calls("status") = 0
        /\ layers = last.before.layers
        /\ running = last.before.running
        /\ status = last.before.status

C10_Witness ==
    /\ Pass /\ RelationExisted /\ Reachable /\ UrlResolved /\ ~AddressResolved
    /\ Aborted
    /\ last.before.status = NrfDataMissing
    /\ status = NrfDataMissing
    /\ layers = NoData

\* C11: the checks are ordered and short-circuiting, relation before
\* connectivity before NRF data: with the relation absent and the container
\* unreachable the pass ends Blocked, with the relation present, the container
\* unreachable and no URL it ends Waiting(container), and a pass that fails a
\* check makes no later call (no push, no add_layer, no replan).
C11_OrderedChecks ==
    Pass =>
        /\ (~RelationExisted /\ ~Reachable) =>
              status = RelationMissing /\ last.log = <<"status">>
        /\ (RelationExisted /\ ~Reachable /\ ~UrlResolved) =>
              status = ContainerNotReady /\ last.log = <<"status", "defer">>
        /\ (RelationExisted /\ Reachable /\ ~UrlResolved) =>
              status = NrfDataMissing /\ last.log = <<"status">>
        /\ (~RelationExisted \/ ~Reachable \/ ~UrlResolved) => ContainerUntouched

C11_Witness ==
    /\ Pass /\ ~RelationExisted /\ ~Reachable /\ ArtifactExisted
    /\ last.before.status = ContainerNotReady
    /\ status = RelationMissing
    /\ last.log = <<"status">>

\* C12: a pass defers its event if and only if the relation exists and the
\* container is unreachable; a pass that ends Blocked, Waiting for the NRF
\* data or Active, or that aborts, leaves the deferred events as they were.
C12_DefersIff ==
    Pass =>
        /\ last.event_deferred <=> (RelationExisted /\ ~Reachable)
        /\ Calls("defer") = (IF RelationExisted /\ ~Reachable THEN 1 ELSE 0)
        /\ deferred = (IF RelationExisted /\ ~Reachable
                       THEN last.kept (+) SetToBag({last.event}) ELSE last.kept)
        /\ (status \in {RelationMissing, NrfDataMissing, Active}) => ~last.event_deferred

C12_Witness ==
    /\ Pass /\ ~RelationExisted /\ ~Reachable
    /\ status = RelationMissing
    /\ ~last.event_deferred /\ Calls("defer") = 0
    /\ deferred = EmptyBag

Settled ==
    /\ "nrf" \in DOMAIN relations
    /\ "url" \in DOMAIN relations["nrf"]
    /\ relations["nrf"].url # "" /\ relations["nrf"].url # None
    /\ can_connect
    /\ unit_get.returncode = 0

Converged ==
    /\ status = Active
    /\ ConfigPath \in DOMAIN files
    /\ "ausf" \in DOMAIN get_plan(layers).services
    /\ "ausf" \in DOMAIN running

\* C13: under fair redelivery of deferred events, if an event is deferred and
\* from then on the relation exists, the container is reachable, a URL is
\* published and the address resolves, the unit eventually is Active with the
\* config file written and the layer applied, with no other event needed.
\* (With D an event being deferred, S the settled environment and A the
\* outcome, [](D /\ []S => <>A) is D ~> (~S \/ A).)
C13_DeferredLeadsToActive ==
    (deferred # EmptyBag) ~> (~Settled \/ Converged)

C13_Witness ==
    /\ Pass /\ last.redelivery
    /\ last.before.status = ContainerNotReady
    /\ ~ArtifactExisted /\ last.before.layers = NoData
    /\ Settled /\ Converged
    /\ deferred = EmptyBag

\* C14: the status changes only inside a pass: a step that runs no pass (the
\* relation removed or created, the URL withdrawn, the container or the
\* address changing) leaves the status, the plan, the running services and the
\* deferred events unchanged, and the config file too unless the step is its
\* deletion from outside; so Active can hold while the relation is gone.
C14_StatusOnlyInPass ==
    [][~last'.handled =>
          /\ status' = status
          /\ layers' = layers /\ running' = running
          /\ deferred' = deferred
          /\ files' = files \/ DeleteConfigFile]_vars

C14_Witness ==
    /\ last.event = "nrf_relation_broken" /\ ~Pass
    /\ "nrf" \notin DOMAIN relations
    /\ status = Active
    /\ ConfigPath \in DOMAIN files
    /\ "ausf" \in DOMAIN running

Successful == Pass /\ ~Aborted /\ Calls("status") = 1 /\ status = Active

\* The plan one successful pass leaves when it starts, in the ambient state of
\* the latest pass, from a container with no layer.
PlanAfterOnePass ==
    get_plan(_on_ausf_pebble_ready(
                 [last.before EXCEPT !.layers = NoData, !.running = NoData]).layers)

\* C15: the layer is combined into the plan on every successful pass: whatever
\* layers earlier passes left, the plan after a successful pass is the plan one
\* successful pass gives (one layer, one "ausf" service, none accumulated), and
\* the pass calls add_layer once and replan once, right after it.
C15_PlanIdempotent ==
    Successful =>
        /\ DOMAIN layers = {"ausf"}
        /\ DOMAIN get_plan(layers).services = {"ausf"}
        /\ get_plan(layers) = PlanAfterOnePass
        /\ running = get_plan(layers).services
        /\ Calls("add_layer") = 1 /\ Calls("replan") = 1
        /\ \E i \in 1..Len(last.log) - 1 :
              last.log[i] = "add_layer" /\ last.log[i + 1] = "replan"
        /\ ("ausf" \in DOMAIN last.before.layers
               /\ last.before.layers["ausf"].services["ausf"].environment.POD_IP
                      = PassAddress)
              => layers = last.before.layers

C15_Witness ==
    /\ Successful
    /\ last.before.status = Active
    /\ "ausf" \in DOMAIN last.before.layers
    /\ last.before.layers["ausf"].services["ausf"].environment.POD_IP = PassAddress
    /\ layers = last.before.layers
    /\ last.log = <<"add_layer", "replan", "status">>

Before(first, second) ==
    \A i, j \in 1..Len(last.log) :
        (last.log[i] = first /\ last.log[j] = second) => i < j

\* C16: within a pass the effects come in the order push (only if the file
\* is absent), add_layer, replan, status Active: add_layer and replan run
\* only with the config file in the container, and the status is set Active
\* only after replan was called in that pass.
C16_EffectOrder ==
    Pass =>
        /\ Before("push", "add_layer") /\ Before("add_layer", "replan")
        /\ Before("push", "raise")
        /\ (Calls("status") = 1 /\ status = Active) =>
              Calls("replan") = 1 /\ Before("replan", "status")
        /\ Calls("push") = (IF RelationExisted /\ Reachable /\ UrlResolved
                               /\ ~ArtifactExisted THEN 1 ELSE 0)
        /\ (Calls("add_layer") > 0 \/ Calls("replan") > 0) =>
              /\ ArtifactExisted \/ last.log[1] = "push"
              /\ ConfigPath \in DOMAIN files
              /\ Calls("add_layer") = 1

C16_Witness ==
    /\ Pass /\ ~ArtifactExisted
    /\ last.log = <<"push", "add_layer", "replan", "status">>
    /\ last.before.status = ContainerNotReady
    /\ status = Active
    /\ last.event = "ausf_pebble_ready"

\* C17: while nothing but the charm deletes the config file (and nothing else
\* alters the plan), Active implies that the config file exists and the plan
\* has the "ausf" service; and a config file in the container was pushed by a
\* pass in which the relation existed, the container was reachable and a
\* non-empty URL was resolved, whose value it keeps.
C17_ActiveImpliesConfigured ==
    /\ [](status = Active => "ausf" \in DOMAIN get_plan(layers).services)
    /\ [](ConfigPath \in DOMAIN files =>
            /\ files[ConfigPath].configuration.nrfUri \notin {None, ""}
            /\ files[ConfigPath].configuration.sbi.registerIPv4
                   = "ausf-operator.whatever.svc.cluster.local")
    /\ [][(~DeleteConfigFile /\ (status = Active => ConfigPath \in DOMAIN files))
             => (status' = Active => ConfigPath \in DOMAIN files')]_vars
    /\ [][(files' # files /\ ConfigPath \in DOMAIN files') =>
             (/\ Pass /\ RelationExisted /\ Reachable /\ UrlResolved
              /\ Calls("push") = 1
              /\ files[ConfigPath].configuration.nrfUri = PassUrl)']_vars

C17_Witness ==
    /\ status = Active
    /\ ConfigPath \in DOMAIN files
    /\ "ausf" \in DOMAIN get_plan(layers).services
    /\ relations = NoData /\ ~can_connect
    /\ last.event = "none"

\* C18: a pass that starts with the config file absent and aborts on the
\* address resolution leaves the file written (the push comes before the layer
\* is built) and the plan, the running services and the status unchanged; a
\* later pass in which the address resolves finds the file, pushes nothing and
\* ends Active.
C18_PartialEffectOnAbort ==
    Pass =>
        /\ (RelationExisted /\ Reachable /\ UrlResolved /\ ~ArtifactExisted
                /\ ~AddressResolved) =>
              /\ last.log = <<"push", "raise">>
              /\ DOMAIN files = {ConfigPath}
              /\ files[ConfigPath].configuration.nrfUri = PassUrl
              /\ layers = last.before.layers /\ running = last.before.running
              /\ status = last.before.status
        /\ (RelationExisted /\ Reachable /\ UrlResolved /\ ArtifactExisted
                /\ last.before.layers = NoData /\ AddressResolved) =>
              /\ last.log = <<"add_layer", "replan", "status">>
              /\ files = last.before.files
              /\ status = Active

C18_Witness ==
    /\ Pass /\ RelationExisted /\ Reachable /\ UrlResolved /\ ~ArtifactExisted
    /\ ~AddressResolved
    /\ last.log = <<"push", "raise">>
    /\ ConfigPath \in DOMAIN files
    /\ layers = NoData /\ running = NoData
    /\ status = ContainerNotReady

====
